---- MODULE Spec2Model ----
(***************************************************************************)
(* Model of general/check_images.py, the Docker image update checker.      *)
(*                                                                         *)
(* Strings are sequences of symbols.  The symbols "/", ":", "." and "@"    *)
(* are the separator characters the code splits on or searches for; every  *)
(* other symbol stands for a run of ordinary characters.  The empty        *)
(* sequence is the empty string.  An Optional[str] is None or Some(s).     *)
(***************************************************************************)
EXTENDS Integers, Sequences, FiniteSets, TLC

VARIABLES
    pc,                 \* position of the modelled run
    image,              \* argument of parse_image_name / get_latest_digest
    parsed,             \* value returned by parse_image_name(image)
    net,                \* responses the registries give to the current check
    digest,             \* value returned by get_latest_digest
    requests,           \* HTTP requests issued by get_latest_digest, in order
    running_containers, \* main: dict returned by get_running_containers
    results,            \* main: the results list
    exit_code           \* main: process exit status, -1 while running

vars == <<pc, image, parsed, net, digest, requests,
          running_containers, results, exit_code>>

-----------------------------------------------------------------------------
(* Bounds *)

MaxLen == 5

MaxContainers == 2

-----------------------------------------------------------------------------
(* Python values *)

None == [some |-> FALSE]

Some(s) == [some |-> TRUE, val |-> s]

\* Python truthiness of an Optional[str]: None and '' are falsy
Truthy(o) == o.some /\ o.val /= <<>>

\* c in s, for a one-character c
Contains(s, c) == \E i \in DOMAIN s : s[i] = c

\* sub in s, for a string sub
ContainsStr(s, sub) ==
    \E i \in 0..(Len(s) - Len(sub)) : SubSeq(s, i + 1, i + Len(sub)) = sub

\* s.split(sep): always at least one part
RECURSIVE split(_, _)
split(s, sep) ==
    IF ~Contains(s, sep) THEN <<s>>
    ELSE LET k == CHOOSE i \in DOMAIN s :
                    s[i] = sep /\ \A j \in 1..(i - 1) : s[j] /= sep
         IN  <<SubSeq(s, 1, k - 1)>> \o split(SubSeq(s, k + 1, Len(s)), sep)

\* s.rsplit(sep, 1): split once, at the last separator
rsplit(s, sep) ==
    IF ~Contains(s, sep) THEN <<s>>
    ELSE LET k == CHOOSE i \in DOMAIN s :
                    s[i] = sep /\ \A j \in (i + 1)..Len(s) : s[j] /= sep
         IN  <<SubSeq(s, 1, k - 1), SubSeq(s, k + 1, Len(s))>>

\* sep.join(parts)
RECURSIVE join(_, _)
join(parts, sep) ==
    IF Len(parts) = 0 THEN <<>>
    ELSE IF Len(parts) = 1 THEN parts[1]
    ELSE parts[1] \o <<sep>> \o join(Tail(parts), sep)

-----------------------------------------------------------------------------
(* parse_image_name *)

latest == <<"latest">>

docker_io == <<"docker", ".", "io">>

ghcr_io == <<"ghcr", ".", "io">>

\* faulty variant: the registry branch is taken only from three segments on
HasRegistryPrefix_min3(parts) == Len(parts) >= 3 /\ Contains(parts[1], ".")

\* the condition of the first branch
HasRegistryPrefix(parts) == Len(parts) >= 2 /\ Contains(parts[1], ".")

\* faulty variant: index 0 of the split, the text before the ':', is taken as the tag
TagOf_index0(seg) == IF Contains(seg, ":") THEN split(seg, ":")[1] ELSE latest

\* seg.split(':')[1] if ':' in seg else 'latest'
TagOf(seg) == IF Contains(seg, ":") THEN split(seg, ":")[2] ELSE latest

parse_image_name(img) ==
    LET parts == split(img, "/") IN
    IF HasRegistryPrefix(parts) THEN
        LET registry      == parts[1]
            repo_parts    == Tail(parts)
            repo_with_tag == join(repo_parts, "/")
            tag           == IF Contains(repo_with_tag, ":")
                             THEN rsplit(repo_with_tag, ":")[2]
                             ELSE latest
            full_repo     == split(join(Tail(parts), "/"), ":")[1]
        IN  [registry |-> registry, repo |-> full_repo, tag |-> tag]
    ELSE IF Len(parts) = 2 THEN
        [registry |-> docker_io,
         repo     |-> parts[1] \o <<"/">> \o split(parts[2], ":")[1],
         tag      |-> TagOf(parts[2])]
    ELSE
        [registry |-> docker_io,
         repo     |-> <<"library", "/">> \o split(parts[1], ":")[1],
         tag      |-> TagOf(parts[1])]

-----------------------------------------------------------------------------
(* Specification ParseSpec: parse_image_name applied to every reference    *)
(* string of at most MaxLen characters over Chars.                         *)

Chars == {"a", "b", ".", ":", "/"}

Strings == UNION {[1..n -> Chars] : n \in 0..MaxLen}

NoRef == [registry |-> <<>>, repo |-> <<>>, tag |-> <<>>]

NoNet == [auth1 |-> [kind |-> "error"], auth2 |-> [kind |-> "error"],
          manifest |-> [kind |-> "error"]]

ParseInit ==
    /\ pc = "input"
    /\ image \in Strings
    /\ parsed = NoRef
    /\ net = NoNet
    /\ digest = None
    /\ requests = <<>>
    /\ running_containers = <<>>
    /\ results = <<>>
    /\ exit_code = -1

Parse ==
    /\ pc = "input"
    /\ parsed' = parse_image_name(image)
    /\ pc' = "parsed"
    /\ UNCHANGED <<image, net, digest, requests,
                   running_containers, results, exit_code>>

ParseNext == Parse

ParseSpec == ParseInit /\ [][ParseNext]_vars

-----------------------------------------------------------------------------
(* HTTP: requests.get / requests.head.  A response is an exception         *)
(* (timeout, connection error) or a status with what the code reads of it. *)

RaisedError == [kind |-> "error"]

\* response of an auth endpoint: status, whether the body is a JSON object,
\* and the object's 'token' member (None when it has none)
AuthResponse(status, json_ok, token) ==
    [kind |-> "http", status |-> status, json_ok |-> json_ok, token |-> token]

\* response of a manifest endpoint: status, the Docker-Content-Digest header
\* (None when the header is not sent) and the body bytes
ManifestResponse(status, header, content) ==
    [kind |-> "http", status |-> status, header |-> header, content |-> content]

Request(method, url, authorization) ==
    [method |-> method, url |-> url, authorization |-> authorization]

Bearer(token) == Some(<<"Bearer ">> \o token.val)

\* hashlib.sha256(b).hexdigest(): lower-case hex, distinct for distinct bodies
hexdigest(content) ==
    IF content = <<"m1">> THEN <<"aa">>
    ELSE IF content = <<"m2">> THEN <<"bb">>
    ELSE <<"e3">>

\* what the try block of a single-endpoint token function returns
TokenOfResponse(resp) ==
    IF resp.kind = "error" THEN None
    ELSE IF resp.status = 200
         THEN IF resp.json_ok THEN resp.token ELSE None
         ELSE None

get_docker_hub_token(repo, n) ==
    [token |-> TokenOfResponse(n.auth1),
     reqs  |-> <<Request("GET",
                    <<"https://auth.docker.io/token?service=registry.docker.io&scope=repository:">>
                        \o repo \o <<":pull">>, None)>>]

get_ghcr_token(repo, n) ==
    [token |-> TokenOfResponse(n.auth1),
     reqs  |-> <<Request("GET",
                    <<"https://ghcr.io/token?scope=repository:">>
                        \o repo \o <<":pull">>, None)>>]

\* the two auth_url values of the loop, in order
generic_auth_urls(registry, repo) ==
    << <<"https://">> \o registry \o <<"/token?scope=repository:">>
           \o repo \o <<":pull">>,
       <<"https://auth.">> \o registry \o <<"/token?scope=repository:">>
           \o repo \o <<":pull">> >>

\* one pass of the loop body: TRUE when it returns, FALSE when the loop goes on
\* (exception -> continue; status other than 200 -> next iteration)
AuthLoopReturns(resp) ==
    resp.kind = "http" /\ resp.status = 200 /\ resp.json_ok

get_generic_registry_token(registry, repo, n) ==
    LET urls == generic_auth_urls(registry, repo)
        r1   == Request("GET", urls[1], None)
        r2   == Request("GET", urls[2], None)
    IN  IF AuthLoopReturns(n.auth1)
        THEN [token |-> n.auth1.token, reqs |-> <<r1>>]
        ELSE IF AuthLoopReturns(n.auth2)
             THEN [token |-> n.auth2.token, reqs |-> <<r1, r2>>]
             ELSE [token |-> None, reqs |-> <<r1, r2>>]

\* faulty variant: a 200 response without the header yields None
BodyDigest_none(resp) == None

\* f"sha256:{hashlib.sha256(response.content).hexdigest()}"
BodyDigest(resp) == Some(<<"sha256:">> \o hexdigest(resp.content))

\* faulty variant: without a token no manifest request is made (the Docker Hub logic)
get_ghcr_digest_needs_token(repo, tag, n) ==
    LET t == get_ghcr_token(repo, n) IN
    IF ~Truthy(t.token) THEN [digest |-> None, reqs |-> t.reqs]
    ELSE
        LET req  == Request("GET",
                        <<"https://ghcr.io/v2/">> \o repo \o <<"/manifests/">> \o tag,
                        Bearer(t.token))
            resp == n.manifest
            d    == IF resp.kind = "error" THEN None
                    ELSE IF resp.status = 200
                         THEN IF Truthy(resp.header) THEN resp.header
                              ELSE BodyDigest(resp)
                         ELSE None
        IN  [digest |-> d, reqs |-> t.reqs \o <<req>>]

get_ghcr_digest(repo, tag, n) ==
    LET t       == get_ghcr_token(repo, n)
        auth    == IF Truthy(t.token) THEN Bearer(t.token) ELSE None
        req     == Request("GET",
                       <<"https://ghcr.io/v2/">> \o repo \o <<"/manifests/">> \o tag,
                       auth)
        resp    == n.manifest
        d       == IF resp.kind = "error" THEN None
                   ELSE IF resp.status = 200
                        THEN IF Truthy(resp.header) THEN resp.header
                             ELSE BodyDigest(resp)
                        ELSE None
    IN  [digest |-> d, reqs |-> t.reqs \o <<req>>]

get_generic_registry_digest(registry, repo, tag, n) ==
    LET t       == get_generic_registry_token(registry, repo, n)
        auth    == IF Truthy(t.token) THEN Bearer(t.token) ELSE None
        req     == Request("GET",
                       <<"https://">> \o registry \o <<"/v2/">> \o repo
                           \o <<"/manifests/">> \o tag,
                       auth)
        resp    == n.manifest
        d       == IF resp.kind = "error" THEN None
                   ELSE IF resp.status = 200
                        THEN IF Truthy(resp.header) THEN resp.header
                             ELSE BodyDigest(resp)
                        ELSE None
    IN  [digest |-> d, reqs |-> t.reqs \o <<req>>]

DOCKER_HUB_API == <<"https://registry.hub.docker.com/v2">>

\* the Docker Hub branch of get_latest_digest
docker_hub_digest(repo, tag, n) ==
    LET t == get_docker_hub_token(repo, n) IN
    IF ~Truthy(t.token) THEN [digest |-> None, reqs |-> t.reqs]
    ELSE
        LET req  == Request("HEAD",
                        DOCKER_HUB_API \o <<"/">> \o repo \o <<"/manifests/">> \o tag,
                        Bearer(t.token))
            resp == n.manifest
            d    == IF resp.kind = "error" THEN None
                    ELSE IF resp.status = 200 THEN resp.header
                    ELSE None
        IN  [digest |-> d, reqs |-> t.reqs \o <<req>>]

get_latest_digest(registry, repo, tag, n) ==
    IF registry = ghcr_io THEN get_ghcr_digest(repo, tag, n)
    ELSE IF registry = docker_io THEN docker_hub_digest(repo, tag, n)
    ELSE get_generic_registry_digest(registry, repo, tag, n)

-----------------------------------------------------------------------------
(* Specification ResolveSpec: get_latest_digest applied to the parsed       *)
(* reference of each image of Images, under every combination of responses. *)

Images ==
    { <<"nginx">>,
      <<"user", "/", "app", ":", "v1">>,
      <<"ghcr", ".", "io", "/", "org", "/", "app", ":", "v2">>,
      <<"quay", ".", "io", "/", "app">>,
      <<"host", ":", "5000", "/", "app">> }

AuthResponses(tok) ==
    { RaisedError,
      AuthResponse(401, TRUE, None),
      AuthResponse(200, FALSE, None),
      AuthResponse(200, TRUE, None),
      AuthResponse(200, TRUE, Some(<<>>)),
      AuthResponse(200, TRUE, Some(<<tok>>)) }

ManifestResponses ==
    { RaisedError, ManifestResponse(404, None, <<"m1">>) }
    \cup { ManifestResponse(200, h, c) :
             h \in {None, Some(<<>>)}, c \in {<<"m1">>, <<"m2">>} }
    \cup { ManifestResponse(200, Some(<<"sha256:", h>>), <<"m1">>) :
             h \in {"aa", "AA"} }

Nets == [auth1 : AuthResponses("t1"), auth2 : AuthResponses("t2"),
         manifest : ManifestResponses]

ResolveInit ==
    /\ pc = "input"
    /\ image \in Images
    /\ parsed = NoRef
    /\ net \in Nets
    /\ digest = None
    /\ requests = <<>>
    /\ running_containers = <<>>
    /\ results = <<>>
    /\ exit_code = -1

Resolve ==
    /\ pc = "input"
    /\ LET ref == parse_image_name(image)
           out == get_latest_digest(ref.registry, ref.repo, ref.tag, net)
       IN  /\ parsed' = ref
           /\ digest' = out.digest
           /\ requests' = out.reqs
    /\ pc' = "resolved"
    /\ UNCHANGED <<image, net, running_containers, results, exit_code>>

ResolveNext == Resolve

ResolveSpec == ResolveInit /\ [][ResolveNext]_vars

-----------------------------------------------------------------------------
(* check_for_updates and main *)

\* what the two `docker image inspect` calls give: whether the first one
\* succeeds with a JSON list, that RepoDigests list, whether the second one
\* succeeds, and the image Id it prints
LocalImage(inspect_ok, repo_digests, id_ok, id) ==
    [inspect_ok |-> inspect_ok, repo_digests |-> repo_digests,
     id_ok |-> id_ok, id |-> id]

get_local_image_digest(loc) ==
    IF ~loc.inspect_ok THEN None
    ELSE IF /\ Len(loc.repo_digests) > 0
            /\ ContainsStr(loc.repo_digests[1], <<"@", "sha256:">>)
         THEN Some(split(loc.repo_digests[1], "@")[2])
         ELSE IF ~loc.id_ok THEN None
              ELSE IF loc.id /= <<>> /\ ContainsStr(loc.id, <<"sha256:">>)
                   THEN Some(loc.id)
                   ELSE None

\* faulty variant: the remote digest is tested first
ErrorMsg_remote_first(local_digest, remote_digest, registry) ==
    IF ~Truthy(remote_digest) THEN Some(<<"Cannot reach ">> \o registry)
    ELSE IF ~Truthy(local_digest) THEN Some(<<"No local digest">>)
    ELSE None

\* error_msg of check_for_updates
ErrorMsg(local_digest, remote_digest, registry) ==
    IF ~Truthy(local_digest) THEN Some(<<"No local digest">>)
    ELSE IF ~Truthy(remote_digest) THEN Some(<<"Cannot reach ">> \o registry)
    ELSE None

\* str.lower() on the hex part of a digest
Lower(str) == [i \in DOMAIN str |-> IF str[i] = "AA" THEN "aa" ELSE str[i]]

\* faulty variant: the digests are compared without regard to letter case
DigestsDiffer_caseless(local_digest, remote_digest) ==
    Lower(local_digest.val) /= Lower(remote_digest.val)

\* local_digest != remote_digest
DigestsDiffer(local_digest, remote_digest) == local_digest /= remote_digest

check_for_updates(img, loc, n) ==
    LET ref           == parse_image_name(img)
        local_digest  == get_local_image_digest(loc)
        remote_digest == get_latest_digest(ref.registry, ref.repo, ref.tag, n).digest
        error_msg     == ErrorMsg(local_digest, remote_digest, ref.registry)
    IN  IF ~Truthy(local_digest) \/ ~Truthy(remote_digest)
        THEN [has_update |-> FALSE, local_digest |-> local_digest,
              remote_digest |-> remote_digest, error_msg |-> error_msg]
        ELSE [has_update |-> DigestsDiffer(local_digest, remote_digest),
              local_digest |-> local_digest,
              remote_digest |-> remote_digest, error_msg |-> error_msg]

\* the dict appended to results by one pass of main's loop
ResultOf(container, loc, n) ==
    LET c == check_for_updates(container.image, loc, n) IN
    [container     |-> container.name,
     image         |-> container.image,
     has_update    |-> c.has_update,
     checked       |-> Truthy(c.local_digest) /\ Truthy(c.remote_digest),
     local_digest  |-> c.local_digest,
     remote_digest |-> c.remote_digest,
     error_msg     |-> c.error_msg]

\* faulty variant: a container that could not be checked also fails the scan
ExitStatus_unchecked_fails(res) ==
    IF \E i \in DOMAIN res : res[i].has_update \/ ~res[i].checked THEN 1 ELSE 0

\* the argument of sys.exit at the end of main
ExitStatus(res) == IF \E i \in DOMAIN res : res[i].has_update THEN 1 ELSE 0

-----------------------------------------------------------------------------
(* Specification Spec: one run of main.  The images, the local images and   *)
(* the registries' responses are chosen freely for each container.          *)

ScanImages ==
    { <<"nginx">>,
      <<"ghcr", ".", "io", "/", "org", "/", "app", ":", "v2">>,
      <<"quay", ".", "io", "/", "app">> }

LocalImages ==
    { LocalImage(FALSE, <<>>, FALSE, <<>>),
      LocalImage(TRUE, << <<"app", "@", "sha256:", "aa">> >>, TRUE, <<"sha256:", "cc">>),
      LocalImage(TRUE, << <<"app", "@", "sha256:", "AA">> >>, TRUE, <<"sha256:", "cc">>),
      LocalImage(TRUE, <<>>, TRUE, <<"sha256:", "aa">>),
      LocalImage(TRUE, <<>>, FALSE, <<>>) }

ScanNets ==
    [auth1 : {RaisedError, AuthResponse(200, TRUE, None),
              AuthResponse(200, TRUE, Some(<<"t1">>))},
     auth2 : {RaisedError, AuthResponse(200, TRUE, Some(<<"t2">>))},
     manifest : { RaisedError,
                  ManifestResponse(404, None, <<"m1">>),
                  ManifestResponse(200, None, <<"m2">>),
                  ManifestResponse(200, Some(<<>>), <<"m1">>),
                  ManifestResponse(200, Some(<<"sha256:", "aa">>), <<"m1">>),
                  ManifestResponse(200, Some(<<"sha256:", "AA">>), <<"m1">>) }]

ContainerName(i) == <<"container-", ToString(i)>>

\* the dicts get_running_containers can return, in insertion order
ContainerLists ==
    UNION { { [i \in 1..k |-> [name |-> ContainerName(i), image |-> imgs[i]]] :
                imgs \in [1..k -> ScanImages] } : k \in 0..MaxContainers }

Init ==
    /\ pc = "start"
    /\ image = <<>>
    /\ parsed = NoRef
    /\ net = NoNet
    /\ digest = None
    /\ requests = <<>>
    /\ running_containers = <<>>
    /\ results = <<>>
    /\ exit_code = -1

\* main up to the loop, with containers running
FoundContainers ==
    /\ pc = "start"
    /\ \E cs \in ContainerLists :
          /\ cs /= <<>>
          /\ running_containers' = cs
    /\ pc' = "loop"
    /\ UNCHANGED <<image, parsed, net, digest, requests, results, exit_code>>

\* main up to its early return: no container runs, or `docker ps` failed
NoContainers ==
    /\ pc = "start"
    /\ running_containers' = <<>>
    /\ pc' = "exited"
    /\ exit_code' = 0
    /\ UNCHANGED <<image, parsed, net, digest, requests, results>>

\* faulty variant: a check that cannot be verified ends the run
CheckContainer_aborts ==
    /\ pc = "loop"
    /\ Len(results) < Len(running_containers)
    /\ \E loc \in LocalImages, n \in ScanNets :
          LET r == ResultOf(running_containers[Len(results) + 1], loc, n) IN
          IF r.checked
          THEN /\ results' = Append(results, r)
               /\ UNCHANGED <<pc, exit_code>>
          ELSE /\ pc' = "exited"
               /\ exit_code' = 1
               /\ UNCHANGED results
    /\ UNCHANGED <<image, parsed, net, digest, requests, running_containers>>

\* one pass of the loop of main
CheckContainer ==
    /\ pc = "loop"
    /\ Len(results) < Len(running_containers)
    /\ \E loc \in LocalImages, n \in ScanNets :
          results' = Append(results,
                            ResultOf(running_containers[Len(results) + 1], loc, n))
    /\ UNCHANGED <<pc, image, parsed, net, digest, requests,
                   running_containers, exit_code>>

\* main after the loop: print_summary and sys.exit
Exit ==
    /\ pc = "loop"
    /\ Len(results) = Len(running_containers)
    /\ exit_code' = ExitStatus(results)
    /\ pc' = "exited"
    /\ UNCHANGED <<image, parsed, net, digest, requests,
                   running_containers, results>>

Next == FoundContainers \/ NoContainers \/ CheckContainer \/ Exit

Spec == Init /\ [][Next]_vars

-----------------------------------------------------------------------------
(* Reference shapes used by the claims about parse_image_name *)

Count(s, c) == Cardinality({i \in DOMAIN s : s[i] = c})

\* position of the first c in s (s contains c)
First(s, c) == CHOOSE i \in DOMAIN s : s[i] = c /\ \A j \in 1..(i - 1) : s[j] /= c

Before(s, c) == IF Contains(s, c) THEN SubSeq(s, 1, First(s, c) - 1) ELSE s

After(s, c) == SubSeq(s, First(s, c) + 1, Len(s))

\* the first '/'-separated segment
FirstSegment(s) == Before(s, "/")

\* 'name' or 'name:tag': one segment, at most one ':'
SingleSegmentForm(s) == ~Contains(s, "/") /\ Count(s, ":") <= 1

\* 'user/repo' or 'user/repo:tag': two segments, at most one ':' in the last
TwoSegmentForm(s) == Count(s, "/") = 1 /\ Count(After(s, "/"), ":") <= 1

\* the text after the ':' when one is given, 'latest' otherwise
GivenTag(seg) == IF Contains(seg, ":") THEN After(seg, ":") ELSE latest

-----------------------------------------------------------------------------
(* Claims about parse_image_name, checked under ParseSpec *)

\* C5 as stated: whenever the first '/'-separated segment of the reference
\* contains a '.', parse_image_name returns that segment as the registry.
C5_DottedFirstSegmentIsRegistry ==
    pc = "parsed" /\ Contains(FirstSegment(image), ".")
        => parsed.registry = FirstSegment(image)

\* C5 amended: whenever the reference has at least two '/'-separated segments
\* and the first contains a '.', parse_image_name returns that first segment,
\* unchanged, as the registry.
C5_DottedPrefixIsRegistry ==
    pc = "parsed" /\ Contains(image, "/") /\ Contains(FirstSegment(image), ".")
        => parsed.registry = FirstSegment(image)

\* a parsed reference with a dotted host:port prefix, kept whole as registry
C5_Witness ==
    /\ pc = "parsed"
    /\ image = <<".", ":", "a", "/", "b">>
    /\ parsed.registry = <<".", ":", "a">>

\* C6 as stated: every single-segment reference 'name' or 'name:tag' parses to
\* registry docker.io and repository library/name, every two-segment reference
\* 'user/repo' or 'user/repo:tag' to registry docker.io and repository
\* user/repo, and the tag is the text after the ':' when given, else 'latest'.
C6_DockerHubDefaults ==
    pc = "parsed" =>
        /\ SingleSegmentForm(image) =>
              parsed = [registry |-> docker_io,
                        repo     |-> <<"library", "/">> \o Before(image, ":"),
                        tag      |-> GivenTag(image)]
        /\ TwoSegmentForm(image) =>
              parsed = [registry |-> docker_io,
                        repo     |-> FirstSegment(image) \o <<"/">>
                                        \o Before(After(image, "/"), ":"),
                        tag      |-> GivenTag(After(image, "/"))]

\* C6 amended: as C6, with the two-segment case restricted to references whose
\* first segment contains no '.'.
C6_DockerHubDefaultsUndotted ==
    pc = "parsed" =>
        /\ SingleSegmentForm(image) =>
              parsed = [registry |-> docker_io,
                        repo     |-> <<"library", "/">> \o Before(image, ":"),
                        tag      |-> GivenTag(image)]
        /\ TwoSegmentForm(image) /\ ~Contains(FirstSegment(image), ".") =>
              parsed = [registry |-> docker_io,
                        repo     |-> FirstSegment(image) \o <<"/">>
                                        \o Before(After(image, "/"), ":"),
                        tag      |-> GivenTag(After(image, "/"))]

\* a parsed 'user/repo:tag' reference with the Docker Hub defaults applied
C6_Witness ==
    /\ pc = "parsed"
    /\ image = <<"a", "/", "b", ":", "a">>
    /\ parsed = [registry |-> docker_io, repo |-> <<"a", "/", "b">>,
                 tag |-> <<"a">>]

\* C7 as stated: every ImageReference parse_image_name returns has a non-empty
\* registry, a non-empty repository without ':' and a non-empty tag.
C7_WellFormed ==
    pc = "parsed" =>
        /\ parsed.registry /= <<>>
        /\ parsed.repo /= <<>>
        /\ ~Contains(parsed.repo, ":")
        /\ parsed.tag /= <<>>

-----------------------------------------------------------------------------
(* Claims about token acquisition and digest resolution, under ResolveSpec *)

Family(registry) ==
    IF registry = ghcr_io THEN "ghcr"
    ELSE IF registry = docker_io THEN "dockerhub"
    ELSE "generic"

\* an auth response that yields a token: 200, a JSON object, a non-empty token
YieldsToken(resp) ==
    resp.kind = "http" /\ resp.status = 200 /\ resp.json_ok /\ Truthy(resp.token)

\* a manifest response that fails: timeout, connection error or non-200 status
ManifestFails(resp) == resp.kind = "error" \/ resp.status /= 200

IsManifestRequest(r) == Contains(r.url, "/manifests/")

ManifestRequests == SelectSeq(requests, IsManifestRequest)

AuthRequests == SelectSeq(requests, LAMBDA r : ~IsManifestRequest(r))

\* the token the family's token function returned for the resolved reference
AcquiredToken ==
    IF Family(parsed.registry) = "ghcr" THEN get_ghcr_token(parsed.repo, net).token
    ELSE IF Family(parsed.registry) = "dockerhub"
         THEN get_docker_hub_token(parsed.repo, net).token
         ELSE get_generic_registry_token(parsed.registry, parsed.repo, net).token

\* the check went on unauthenticated: one manifest request, sent last and
\* without Authorization, and the digest is absent only if that request failed
ProceedsUnauthenticated ==
    /\ Len(ManifestRequests) = 1
    /\ IsManifestRequest(requests[Len(requests)])
    /\ requests[Len(requests)].authorization = None
    /\ (~Truthy(digest) => ManifestFails(net.manifest))

\* C8 as stated: for every registry family, when token acquisition yields no
\* token the manifest request is still issued, without Authorization, and the
\* remote digest is absent only if that manifest request fails.
C8_NoTokenIsNonFatal ==
    pc = "resolved" /\ ~Truthy(AcquiredToken) => ProceedsUnauthenticated

\* C8 amended: for GHCR and generic registries, when token acquisition yields
\* no token the manifest request is still issued, without Authorization, and
\* the remote digest is absent only if that request fails; for Docker Hub no
\* manifest request is issued without a token and the remote digest is absent.
C8_NoTokenIsNonFatalExceptDockerHub ==
    pc = "resolved" /\ ~Truthy(AcquiredToken) =>
        IF Family(parsed.registry) = "dockerhub"
        THEN ManifestRequests = <<>> /\ digest = None
        ELSE ProceedsUnauthenticated

\* GHCR check whose token request failed and whose unauthenticated manifest
\* request still produced a digest
C8_Witness ==
    /\ pc = "resolved"
    /\ Family(parsed.registry) = "ghcr"
    /\ net.auth1 = RaisedError
    /\ requests[Len(requests)].authorization = None
    /\ digest = Some(<<"sha256:", "aa">>)

\* C9 as stated: for a generic registry the first token request goes to
\* https://<registry>/token, a second one goes to https://auth.<registry>/token
\* exactly when the first endpoint did not yield a token, and the token used is
\* that of the first endpoint that yields one, absent only if neither does.
C9_SecondEndpointIffFirstYieldsNone ==
    pc = "resolved" /\ Family(parsed.registry) = "generic" =>
        LET urls == generic_auth_urls(parsed.registry, parsed.repo)
            used == requests[Len(requests)].authorization
        IN  /\ Len(AuthRequests) \in {1, 2}
            /\ AuthRequests[1].url = urls[1]
            /\ (Len(AuthRequests) = 2 <=> ~YieldsToken(net.auth1))
            /\ (Len(AuthRequests) = 2 => AuthRequests[2].url = urls[2])
            /\ used = IF YieldsToken(net.auth1) THEN Bearer(net.auth1.token)
                      ELSE IF YieldsToken(net.auth2) THEN Bearer(net.auth2.token)
                      ELSE None

\* C10: a manifest request that fails (timeout, connection error, non-200)
\* yields no digest; for GHCR and generic registries a 200 yields the
\* Docker-Content-Digest header when it is present (non-empty) and else
\* 'sha256:' + SHA-256 of the body, so always a digest; for Docker Hub a 200
\* yields the header value only.
C10_DigestExtraction ==
    pc = "resolved" =>
        /\ ManifestFails(net.manifest) => digest = None
        /\ ManifestRequests /= <<>> /\ ~ManifestFails(net.manifest) =>
              IF Family(parsed.registry) = "dockerhub"
              THEN digest = net.manifest.header
              ELSE /\ Truthy(digest)
                   /\ Truthy(net.manifest.header) => digest = net.manifest.header
                   /\ ~Truthy(net.manifest.header) =>
                         digest = Some(<<"sha256:">> \o hexdigest(net.manifest.content))

\* generic registry answering 200 without the header: the digest is computed
C10_Witness ==
    /\ pc = "resolved"
    /\ Family(parsed.registry) = "generic"
    /\ net.manifest = ManifestResponse(200, None, <<"m2">>)
    /\ digest = Some(<<"sha256:", "bb">>)

-----------------------------------------------------------------------------
(* Claims about check_for_updates and main, under Spec and FairSpec *)

Unverifiable(r) == ~r.checked /\ ~r.has_update

UpToDate(r) == r.checked /\ ~r.has_update

UpdateAvailable(r) == r.checked /\ r.has_update

\* a digest was obtained: not None, and not the empty string
Present(d) == d /= None /\ d /= Some(<<>>)

\* C1: every outcome is exactly one of UNVERIFIABLE, UP_TO_DATE and
\* UPDATE_AVAILABLE: UNVERIFIABLE iff a digest is absent, UP_TO_DATE iff both
\* are present and the same string, UPDATE_AVAILABLE iff both are present and
\* differ in any character, letter case included.
C1_ThreeOutcomes ==
    \A i \in DOMAIN results :
        LET r    == results[i]
            both == Present(r.local_digest) /\ Present(r.remote_digest)
        IN  /\ Unverifiable(r) \/ UpToDate(r) \/ UpdateAvailable(r)
            /\ Unverifiable(r) <=> ~both
            /\ UpToDate(r) <=> both /\ r.local_digest.val = r.remote_digest.val
            /\ UpdateAvailable(r) <=> both /\ r.local_digest.val /= r.remote_digest.val

\* an outcome UPDATE_AVAILABLE whose digests differ in letter case only
C1_Witness ==
    \E i \in DOMAIN results :
        /\ UpdateAvailable(results[i])
        /\ results[i].local_digest = Some(<<"sha256:", "aa">>)
        /\ results[i].remote_digest = Some(<<"sha256:", "AA">>)

\* C2: an UNVERIFIABLE outcome carries the 'No local digest' reason when the
\* local digest is absent, whatever the remote one, and else the 'Cannot reach'
\* reason naming the registry parse_image_name returned for the image; an
\* outcome with both digests present carries no reason.
C2_Reasons ==
    \A i \in DOMAIN results :
        LET r == results[i] IN
        /\ Unverifiable(r) /\ ~Present(r.local_digest) =>
              r.error_msg = Some(<<"No local digest">>)
        /\ Unverifiable(r) /\ Present(r.local_digest) =>
              r.error_msg =
                  Some(<<"Cannot reach ">> \o parse_image_name(r.image).registry)
        /\ Present(r.local_digest) /\ Present(r.remote_digest) =>
              r.error_msg = None

\* an outcome with no local digest and a remote digest obtained
C2_Witness ==
    \E i \in DOMAIN results :
        /\ ~Present(results[i].local_digest)
        /\ Present(results[i].remote_digest)
        /\ results[i].error_msg = Some(<<"No local digest">>)

\* C3: the exit code is 1 if and only if some outcome is UPDATE_AVAILABLE, and
\* 0 otherwise, also when no container runs.
C3_ExitCode ==
    pc = "exited" =>
        /\ exit_code \in {0, 1}
        /\ exit_code = 1 <=> \E i \in DOMAIN results : UpdateAvailable(results[i])

\* a finished scan that exits 0 with an UNVERIFIABLE and an UP_TO_DATE outcome
C3_Witness ==
    /\ pc = "exited"
    /\ exit_code = 0
    /\ \E i \in DOMAIN results : Unverifiable(results[i])
    /\ \E i \in DOMAIN results : UpToDate(results[i])

\* results holds the outcomes of the first containers, in enumeration order
InOrder ==
    /\ Len(results) <= Len(running_containers)
    /\ \A i \in DOMAIN results :
          /\ results[i].container = running_containers[i].name
          /\ results[i].image = running_containers[i].image

\* the scan is over with one outcome per running container
ScanComplete ==
    /\ pc = "exited"
    /\ InOrder
    /\ Len(results) = Len(running_containers)

\* steps of main left before the exit grow as Rank falls short of its maximum,
\* 2 + Len(running_containers)
Rank ==
    IF pc = "start" THEN 0
    ELSE IF pc = "loop" THEN 1 + Len(results)
    ELSE 2 + Len(running_containers)

\* C4: whatever fails while a container is checked, every step of main moves
\* the scan on (so it finishes within 2 + the number of containers steps),
\* leaves the outcomes already recorded as they are, keeps one outcome per
\* container checked, in enumeration order, and ends the run only with an
\* outcome for every running container.
C4_ScanCompletes ==
    [][/\ Rank' > Rank
       /\ Len(results') >= Len(results)
       /\ \A i \in DOMAIN results : results'[i] = results[i]
       /\ InOrder'
       /\ pc' = "exited" => ScanComplete'
       /\ pc' /= "exited" => pc' = "loop"]_vars

\* a finished scan of two containers in which the first check failed at the
\* registry and the second produced a verdict
C4_Witness ==
    /\ ScanComplete
    /\ Len(results) >= 2
    /\ Unverifiable(results[1])
    /\ results[1].error_msg /= Some(<<"No local digest">>)
    /\ results[2].checked

====
